---- MODULE Spec2Model ----
(***************************************************************************)
(* A model of the blackjack rules engine of src/src/blackjack.hpp: the     *)
(* Shoe, Hand valuation, and the deal / peek / player turn / dealer turn / *)
(* settlement state machine of Round::play().                              *)
(*                                                                         *)
(* A Card is modelled by its Rank alone (2..14, Ace = 14): no code path    *)
(* of the engine reads the suit.  The Shoe's card order is produced by     *)
(* std::shuffle and is unknown until drawn, so the shoe is modelled by its *)
(* cursor next_ and the multiset of ranks still ahead of the cursor; a     *)
(* draw returns any rank that is still ahead.  The Strategy is an          *)
(* arbitrary caller-supplied policy: each decide() call returns any        *)
(* Decision.                                                               *)
(***************************************************************************)
EXTENDS Integers, Sequences, FiniteSets, TLC

VARIABLES
  rules,       \* Round::rules_ (the Rules the round was constructed with)
  bet_,        \* Round::bet_
  shoe,        \* Round::shoe_ : [next_, left]
  player,      \* Round::player_ : Hand
  dealer,      \* Round::dealer_ : Hand
  can_double,  \* local of Round::play()
  pc,          \* position inside Round::play() (or inside the Hand driver)
  decides,     \* number of Strategy::decide() calls made so far
  result,      \* the RoundResult returned by play(), None before it returns
  query,       \* the values returned by the last Hand or Shoe call of a driver
  sim          \* simulate(): n, the loop index i and stats; None outside it

vars == <<rules, bet_, shoe, player, dealer, can_double, pc, decides, result, query, sim>>

\* "no value yet" for result, query and sim
None == [none |-> TRUE]

-----------------------------------------------------------------------------
(* Bounds of the exploration *)

\* greatest number of Hit answers the explored strategies give in one round
MaxHits == 1
\* longest hand the Hand driver builds
MaxHandLen == 3
\* most rounds a simulate() call is asked for
MaxRounds == 2

-----------------------------------------------------------------------------
(* Cards *)

Six == 6
Nine == 9
King == 13
Ace == 14
Ranks == 2..14

card_value(r) ==
  IF r \in 2..9 THEN r
  ELSE IF r \in 10..13 THEN 10
  ELSE IF r = Ace THEN 11
  ELSE 0

-----------------------------------------------------------------------------
(* Explored inputs *)

\* rules.num_decks of the explored rule sets
DeckCounts == {1}
\* ranks the explored shoe orders bring up during a round: four of them
\* for a single round, three for the rounds of a simulate() run
DrawRanks == IF sim = [none |-> TRUE] THEN {Six, Nine, King, Ace} ELSE {Six, King, Ace}
\* numbers of rounds n the explored simulate() calls are given
SimRounds == 0..MaxRounds
\* stakes and blackjack payout ratios of the explored rounds
Bets == {100, 101}
PayRatios == {<<3, 2>>, <<6, 5>>}

-----------------------------------------------------------------------------
(* Shoe *)

\* the shoe after reset(decks): every rank four times per deck, cursor 0
ShoeReset(decks) ==
  [size |-> decks * 52, next_ |-> 0, left |-> [r \in Ranks |-> 4 * decks]]

\* shuffle(): the order of the whole sequence is redrawn, so every card of
\* cards_ may come up again from index 0 on
shuffle(sh) == [sh EXCEPT !.left = [r \in Ranks |-> sh.size \div 13]]

\* Mutant of ShoeReady: the shoe is reshuffled with one card still ahead.
ShoeReady_OneEarly(sh) ==
  IF sh.next_ + 1 >= sh.size THEN [shuffle(sh) EXCEPT !.next_ = 0] ELSE sh

\* if (next_ >= cards_.size()) { shuffle(); next_ = 0; }
ShoeReady(sh) ==
  IF sh.next_ >= sh.size THEN [shuffle(sh) EXCEPT !.next_ = 0] ELSE sh

\* draw() can return rank r
CanDraw(sh, r) == ShoeReady(sh).left[r] > 0

\* the shoe after draw() has returned rank r
AfterDraw(sh, r) ==
  LET s == ShoeReady(sh)
  IN [s EXCEPT !.next_ = @ + 1, !.left[r] = @ - 1]

remaining(sh) == sh.size - sh.next_

-----------------------------------------------------------------------------
(* Hand *)

EmptyHand == [cards |-> <<>>, doubled |-> FALSE, surrendered |-> FALSE]

add(h, c) == [h EXCEPT !.cards = Append(@, c)]

RECURSIVE SumValues(_)
SumValues(cards) ==
  IF cards = <<>> THEN 0 ELSE card_value(Head(cards)) + SumValues(Tail(cards))

RECURSIVE CountAces(_)
CountAces(cards) ==
  IF cards = <<>> THEN 0
  ELSE (IF Head(cards) = Ace THEN 1 ELSE 0) + CountAces(Tail(cards))

\* Mutant of ReduceAces: the loop test is total >= 21, so a 21 is reduced too.
RECURSIVE ReduceAcesFrom21(_, _)
ReduceAcesFrom21(total, aces) ==
  IF total >= 21 /\ aces > 0 THEN ReduceAcesFrom21(total - 10, aces - 1) ELSE total

\* while (total > 21 && aces > 0) { total -= 10; --aces; }
RECURSIVE ReduceAces(_, _)
ReduceAces(total, aces) ==
  IF total > 21 /\ aces > 0 THEN ReduceAces(total - 10, aces - 1) ELSE total

hard_total(h) == ReduceAces(SumValues(h.cards), CountAces(h.cards))

is_soft(h) ==
  \E i \in 1..Len(h.cards) :
    /\ h.cards[i] = Ace
    /\ LET base == ReduceAces(SumValues(h.cards), CountAces(h.cards))
       IN /\ base <= 21
          /\ CountAces(h.cards) > 0
          /\ base # hard_total(h)

is_blackjack(h) == Len(h.cards) = 2 /\ hard_total(h) = 21

is_bust(h) == hard_total(h) > 21

-----------------------------------------------------------------------------
(* Decisions and outcomes *)

Decision == {"Hit", "Stand", "Double", "Surrender"}

Outcome == {"PlayerBJ", "DealerBJ", "PlayerBust", "DealerBust",
            "PlayerWin", "DealerWin", "Push", "PlayerSurrender"}

\* C++ integer division truncates toward zero
TruncDiv(a, b) ==
  IF (a >= 0) = (b > 0) THEN (IF a >= 0 THEN a \div b ELSE (-a) \div (-b))
  ELSE -((IF a >= 0 THEN a ELSE -a) \div (IF b > 0 THEN b ELSE -b))

\* Mutant of payout_of: the blackjack ratio is divided before it is multiplied.
payout_of_RatioFirst(oc, h, bet, r) ==
  CASE oc = "PlayerBJ" -> bet + bet * TruncDiv(r.blackjack_pays_num, r.blackjack_pays_den)
    [] oc \in {"DealerBJ", "PlayerBust"} -> 0
    [] oc \in {"DealerBust", "PlayerWin"} -> IF h.doubled THEN bet * 4 ELSE bet * 2
    [] oc = "DealerWin" -> 0
    [] oc = "Push" -> IF h.doubled THEN bet * 2 ELSE bet
    [] oc = "PlayerSurrender" -> TruncDiv(bet, 2)

\* Mutant of payout_of: a Push returns the single stake even when doubled.
payout_of_PushSingle(oc, h, bet, r) ==
  CASE oc = "PlayerBJ" -> bet + TruncDiv(bet * r.blackjack_pays_num, r.blackjack_pays_den)
    [] oc \in {"DealerBJ", "PlayerBust"} -> 0
    [] oc \in {"DealerBust", "PlayerWin"} -> IF h.doubled THEN bet * 4 ELSE bet * 2
    [] oc = "DealerWin" -> 0
    [] oc = "Push" -> bet
    [] oc = "PlayerSurrender" -> TruncDiv(bet, 2)

\* the switch of Round::settle
payout_of(oc, h, bet, r) ==
  CASE oc = "PlayerBJ" -> bet + TruncDiv(bet * r.blackjack_pays_num, r.blackjack_pays_den)
    [] oc \in {"DealerBJ", "PlayerBust"} -> 0
    [] oc \in {"DealerBust", "PlayerWin"} -> IF h.doubled THEN bet * 4 ELSE bet * 2
    [] oc = "DealerWin" -> 0
    [] oc = "Push" -> IF h.doubled THEN bet * 2 ELSE bet
    [] oc = "PlayerSurrender" -> TruncDiv(bet, 2)

settle(oc, p, d, bet, r) ==
  [outcome |-> oc,
   player_total |-> hard_total(p),
   dealer_total |-> hard_total(d),
   payout_cents |-> payout_of(oc, p, bet, r)]

-----------------------------------------------------------------------------
(* Round::play() *)

RuleSets ==
  [num_decks : DeckCounts,
   dealer_hits_soft17 : BOOLEAN,
   double_allowed : BOOLEAN,
   surrender : BOOLEAN,
   peek_for_blackjack : BOOLEAN,
   blackjack_pays_num : {3, 6},
   blackjack_pays_den : {2, 5}]

Init ==
  /\ rules \in {r \in RuleSets : <<r.blackjack_pays_num, r.blackjack_pays_den>> \in PayRatios}
  /\ bet_ \in Bets
  /\ shoe = ShoeReset(rules.num_decks)
  /\ player = EmptyHand
  /\ dealer = EmptyHand
  /\ can_double = FALSE
  /\ pc = "deal1"
  /\ decides = 0
  /\ result = None
  /\ query = None
  /\ sim = None

\* Mutant of DealPlayer: the player is dealt two cards in a row.
DealPlayer_TwoInARow ==
  /\ pc \in {"deal1", "deal3"}
  /\ \E c \in DrawRanks :
       /\ CanDraw(shoe, c)
       /\ shoe' = AfterDraw(shoe, c)
       /\ player' = add(player, c)
  /\ pc' = IF pc = "deal1" THEN "deal3" ELSE "deal4"
  /\ UNCHANGED <<rules, bet_, dealer, can_double, decides, result, query, sim>>

\* player_.add(shoe_.draw()), 1st and 3rd card
DealPlayer ==
  /\ pc \in {"deal1", "deal3"}
  /\ \E c \in DrawRanks :
       /\ CanDraw(shoe, c)
       /\ shoe' = AfterDraw(shoe, c)
       /\ player' = add(player, c)
  /\ pc' = IF pc = "deal1" THEN "deal2" ELSE "deal4"
  /\ UNCHANGED <<rules, bet_, dealer, can_double, decides, result, query, sim>>

\* dealer_.add(shoe_.draw()), 2nd and 4th card
DealDealer ==
  /\ pc \in {"deal2", "deal4"}
  /\ \E c \in DrawRanks :
       /\ CanDraw(shoe, c)
       /\ shoe' = AfterDraw(shoe, c)
       /\ dealer' = add(dealer, c)
  /\ pc' = IF pc = "deal2" THEN "deal3" ELSE "peek"
  /\ UNCHANGED <<rules, bet_, player, can_double, decides, result, query, sim>>

\* Mutant of DealerPeek: the player's natural is not looked at.
DealerPeek_NoPush ==
  /\ pc = "peek"
  /\ IF rules.peek_for_blackjack /\ is_blackjack(dealer)
     THEN /\ result' = settle("DealerBJ", player, dealer, bet_, rules)
          /\ pc' = "done"
     ELSE /\ pc' = "bjcheck"
          /\ UNCHANGED result
  /\ UNCHANGED <<rules, bet_, shoe, player, dealer, can_double, decides, query, sim>>

\* if (rules_.peek_for_blackjack) { if (dealer_.is_blackjack()) ... }
DealerPeek ==
  /\ pc = "peek"
  /\ IF rules.peek_for_blackjack /\ is_blackjack(dealer)
     THEN /\ result' = settle(IF is_blackjack(player) THEN "Push" ELSE "DealerBJ",
                              player, dealer, bet_, rules)
          /\ pc' = "done"
     ELSE /\ pc' = "bjcheck"
          /\ UNCHANGED result
  /\ UNCHANGED <<rules, bet_, shoe, player, dealer, can_double, decides, query, sim>>

\* if (player_.is_blackjack()) return settle(PlayerBJ); bool can_double = ...
PlayerBlackjackCheck ==
  /\ pc = "bjcheck"
  /\ IF is_blackjack(player)
     THEN /\ result' = settle("PlayerBJ", player, dealer, bet_, rules)
          /\ pc' = "done"
          /\ UNCHANGED can_double
     ELSE /\ pc' = "player"
          /\ can_double' = rules.double_allowed
          /\ UNCHANGED result
  /\ UNCHANGED <<rules, bet_, shoe, player, dealer, decides, query, sim>>

\* Mutant of SurrenderOffered: the hand size is not tested.
SurrenderOffered_AnySize == rules.surrender

\* the surrender offer is made in this iteration of the player loop
SurrenderOffered == rules.surrender /\ Len(player.cards) = 2

\* number of decide() calls of an iteration that gets past the offer
CallsPastOffer == IF SurrenderOffered THEN 2 ELSE 1

\* hits taken so far: every card beyond the two dealt ones came from a Hit
Hits == Len(player.cards) - 2

\* One iteration of the player loop in which the strategy answers the
\* surrender offer with Surrender.
PlayerSurrender(d1) ==
  /\ pc = "player"
  /\ SurrenderOffered
  /\ d1 = "Surrender"
  /\ decides' = decides + 1
  /\ player' = [player EXCEPT !.surrendered = TRUE]
  /\ result' = settle("PlayerSurrender", player', dealer, bet_, rules)
  /\ pc' = "done"
  /\ UNCHANGED <<rules, bet_, shoe, dealer, can_double, query, sim>>

\* the answer d1 to the offer (if one is made) lets the iteration go on
PastOffer(d1) == SurrenderOffered => d1 # "Surrender"

\* if (d == Decision::Double && can_double)
PlayerDouble(d1, d) ==
  /\ pc = "player"
  /\ PastOffer(d1)
  /\ d = "Double" /\ can_double
  /\ decides' = decides + CallsPastOffer
  /\ \E c \in DrawRanks :
       /\ CanDraw(shoe, c)
       /\ shoe' = AfterDraw(shoe, c)
       /\ player' = add([player EXCEPT !.doubled = TRUE], c)
  /\ pc' = "dealer"
  /\ UNCHANGED <<rules, bet_, dealer, can_double, result, query, sim>>

\* Mutant of PlayerHit: can_double is not cleared after a Hit.
PlayerHit_KeepsDouble(d1, d) ==
  /\ pc = "player"
  /\ (SurrenderOffered => d1 # "Surrender")
  /\ d = "Hit"
  /\ Len(player.cards) - 2 < MaxHits
  /\ decides' = decides + (IF SurrenderOffered THEN 2 ELSE 1)
  /\ \E c \in DrawRanks :
       /\ CanDraw(shoe, c)
       /\ shoe' = AfterDraw(shoe, c)
       /\ player' = add(player, c)
  /\ IF is_bust(player')
     THEN /\ result' = settle("PlayerBust", player', dealer, bet_, rules)
          /\ pc' = "done"
     ELSE /\ pc' = "player"
          /\ UNCHANGED result
  /\ UNCHANGED <<rules, bet_, dealer, can_double, query, sim>>

\* else if (d == Decision::Hit), for a strategy that may answer Hit any
\* number of times
PlayerHitAnyTime(d1, d) ==
  /\ pc = "player"
  /\ PastOffer(d1)
  /\ d = "Hit"
  /\ decides' = decides + CallsPastOffer
  /\ \E c \in DrawRanks :
       /\ CanDraw(shoe, c)
       /\ shoe' = AfterDraw(shoe, c)
       /\ player' = add(player, c)
  /\ IF is_bust(player')
     THEN /\ result' = settle("PlayerBust", player', dealer, bet_, rules)
          /\ pc' = "done"
          /\ UNCHANGED can_double
     ELSE /\ can_double' = FALSE
          /\ pc' = "player"
          /\ UNCHANGED result
  /\ UNCHANGED <<rules, bet_, dealer, query, sim>>

\* the same, for the strategies that answer Hit at most MaxHits times
PlayerHit(d1, d) ==
  /\ Hits < MaxHits
  /\ PlayerHitAnyTime(d1, d)

\* else: Stand (or illegal Double -> treat as Stand)
PlayerStand(d1, d) ==
  /\ pc = "player"
  /\ PastOffer(d1)
  /\ ~(d = "Double" /\ can_double)
  /\ d # "Hit"
  /\ decides' = decides + CallsPastOffer
  /\ pc' = "dealer"
  /\ UNCHANGED <<rules, bet_, shoe, player, dealer, can_double, result, query, sim>>

\* Mutant of DealerMustDraw: the dealer already stands on 16.
DealerMustDraw_Below16 ==
  LET total == hard_total(dealer)
      soft == is_soft(dealer)
  IN \/ total < 16
     \/ (total = 17 /\ rules.dealer_hits_soft17 /\ soft)

\* the dealer draws in this iteration of the dealer loop
DealerMustDraw ==
  LET total == hard_total(dealer)
      soft == is_soft(dealer)
  IN \/ total < 17
     \/ (total = 17 /\ rules.dealer_hits_soft17 /\ soft)

DealerDraw ==
  /\ pc = "dealer"
  /\ DealerMustDraw
  /\ \E c \in DrawRanks :
       /\ CanDraw(shoe, c)
       /\ shoe' = AfterDraw(shoe, c)
       /\ dealer' = add(dealer, c)
  /\ UNCHANGED <<rules, bet_, player, can_double, pc, decides, result, query, sim>>

\* Mutant of final_outcome: equal totals go to the player.
final_outcome_TieToPlayer(p, d) ==
  IF is_bust(d) THEN "DealerBust"
  ELSE IF hard_total(p) >= hard_total(d) THEN "PlayerWin" ELSE "DealerWin"

\* the outcome chosen after the dealer turn
final_outcome(p, d) ==
  IF is_bust(d) THEN "DealerBust"
  ELSE LET pt == hard_total(p)
           dt == hard_total(d)
       IN IF pt > dt THEN "PlayerWin"
          ELSE IF pt < dt THEN "DealerWin"
          ELSE "Push"

\* Mutant of DealerStand: the loop is left only above 17, so a dealer on a
\* hard 17 neither draws nor leaves.
DealerStand_Above17 ==
  /\ pc = "dealer"
  /\ ~DealerMustDraw
  /\ hard_total(dealer) > 17
  /\ result' = settle(final_outcome(player, dealer), player, dealer, bet_, rules)
  /\ pc' = "done"
  /\ UNCHANGED <<rules, bet_, shoe, player, dealer, can_double, decides, query, sim>>

\* break out of the dealer loop, then "Settle normal outcomes"
DealerStand ==
  /\ pc = "dealer"
  /\ ~DealerMustDraw
  /\ result' = settle(final_outcome(player, dealer), player, dealer, bet_, rules)
  /\ pc' = "done"
  /\ UNCHANGED <<rules, bet_, shoe, player, dealer, can_double, decides, query, sim>>

Next ==
  \/ DealPlayer
  \/ DealDealer
  \/ DealerPeek
  \/ PlayerBlackjackCheck
  \/ \E d1 \in Decision : PlayerSurrender(d1)
  \/ \E d1, d \in Decision : PlayerDouble(d1, d)
  \/ \E d1, d \in Decision : PlayerHit(d1, d)
  \/ \E d1, d \in Decision : PlayerStand(d1, d)
  \/ DealerDraw
  \/ DealerStand

\* one iteration of the player loop in which the strategy answers d1 to the
\* surrender offer (if one is made) and d to the decision after it
PlayerIteration(d1, d) ==
  \/ PlayerSurrender(d1)
  \/ PlayerDouble(d1, d)
  \/ PlayerHit(d1, d)
  \/ PlayerStand(d1, d)

Spec == Init /\ [][Next]_vars

-----------------------------------------------------------------------------
(* One Round::play() against a strategy that may answer Hit without limit. *)
(* play() is straight-line synchronous code: once called it keeps taking   *)
(* steps until it returns, which is weak fairness of its next-step action. *)

\* every decision is open to the strategy (doubling and surrender allowed);
\* one stake and one payout ratio, which no loop condition reads
TermInit ==
  /\ Init
  /\ rules.double_allowed /\ rules.surrender
  /\ bet_ = 100
  /\ rules.blackjack_pays_num = 3 /\ rules.blackjack_pays_den = 2

TermNext ==
  \/ DealPlayer
  \/ DealDealer
  \/ DealerPeek
  \/ PlayerBlackjackCheck
  \/ \E d1 \in Decision : PlayerSurrender(d1)
  \/ \E d1, d \in Decision : PlayerDouble(d1, d)
  \/ \E d1, d \in Decision : PlayerHitAnyTime(d1, d)
  \/ \E d1, d \in Decision : PlayerStand(d1, d)
  \/ DealerDraw
  \/ DealerStand

TermSpec == TermInit /\ [][TermNext]_vars /\ WF_vars(TermNext)

-----------------------------------------------------------------------------
(* Hand driver: builds every hand of up to MaxHandLen cards over all ranks *)
(* with Hand::add and reads it with the Hand queries.                      *)

HandInit ==
  /\ rules = [num_decks |-> 1, dealer_hits_soft17 |-> TRUE, double_allowed |-> TRUE,
              surrender |-> FALSE, peek_for_blackjack |-> TRUE,
              blackjack_pays_num |-> 3, blackjack_pays_den |-> 2]
  /\ bet_ = 100
  /\ shoe = ShoeReset(rules.num_decks)
  /\ player = EmptyHand
  /\ dealer = EmptyHand
  /\ can_double = FALSE
  /\ pc = "hand"
  /\ decides = 0
  /\ result = None
  /\ query = None
  /\ sim = None

\* Hand::add
HandAdd ==
  /\ pc = "hand"
  /\ Len(player.cards) < MaxHandLen
  /\ \E c \in Ranks : player' = add(player, c)
  /\ query' = None
  /\ UNCHANGED <<rules, bet_, shoe, dealer, can_double, pc, decides, result, sim>>

\* Hand::hard_total, is_soft, is_blackjack, is_bust
HandQuery ==
  /\ pc = "hand"
  /\ query = None
  /\ query' = [hard_total |-> hard_total(player),
               is_soft |-> is_soft(player),
               is_blackjack |-> is_blackjack(player),
               is_bust |-> is_bust(player)]
  /\ UNCHANGED <<rules, bet_, shoe, player, dealer, can_double, pc, decides, result, sim>>

HandNext == HandAdd \/ HandQuery

HandSpec == HandInit /\ [][HandNext]_vars

-----------------------------------------------------------------------------
(* simulate(n, rules, seed, bet_cents, strategy) *)

StatFields == {"rounds", "player_wins", "dealer_wins", "pushes", "player_bj",
               "dealer_bj", "busts", "surrenders", "bankroll_cents"}

\* SimStats stats{}
ZeroStats == [f \in StatFields |-> 0]

\* Mutant of fold: the stake taken off is the single bet even when doubled.
fold_SingleStake(st, res, doubled, bet) ==
  LET oc == res.outcome
      inc(f, on) == IF oc \in on THEN st[f] + 1 ELSE st[f]
  IN [rounds |-> st.rounds + 1,
      bankroll_cents |-> st.bankroll_cents + (res.payout_cents - bet),
      player_bj |-> inc("player_bj", {"PlayerBJ"}),
      dealer_bj |-> inc("dealer_bj", {"DealerBJ"}),
      player_wins |-> inc("player_wins", {"PlayerBJ", "DealerBust", "PlayerWin"}),
      dealer_wins |-> inc("dealer_wins", {"DealerBJ", "PlayerBust", "DealerWin"}),
      busts |-> inc("busts", {"DealerBust", "PlayerBust"}),
      pushes |-> inc("pushes", {"Push"}),
      surrenders |-> inc("surrenders", {"PlayerSurrender"})]

\* Mutant of fold: a PlayerBust counts as a bust but not as a dealer win.
fold_BustNoWin(st, res, doubled, bet) ==
  LET oc == res.outcome
      inc(f, on) == IF oc \in on THEN st[f] + 1 ELSE st[f]
  IN [rounds |-> st.rounds + 1,
      bankroll_cents |-> st.bankroll_cents
                           + (res.payout_cents - (IF doubled THEN bet * 2 ELSE bet)),
      player_bj |-> inc("player_bj", {"PlayerBJ"}),
      dealer_bj |-> inc("dealer_bj", {"DealerBJ"}),
      player_wins |-> inc("player_wins", {"PlayerBJ", "DealerBust", "PlayerWin"}),
      dealer_wins |-> inc("dealer_wins", {"DealerBJ", "DealerWin"}),
      busts |-> inc("busts", {"DealerBust", "PlayerBust"}),
      pushes |-> inc("pushes", {"Push"}),
      surrenders |-> inc("surrenders", {"PlayerSurrender"})]

\* stats.rounds++; stats.bankroll_cents += ...; switch (res.outcome) {...}
fold(st, res, doubled, bet) ==
  LET oc == res.outcome
      inc(f, on) == IF oc \in on THEN st[f] + 1 ELSE st[f]
  IN [rounds |-> st.rounds + 1,
      bankroll_cents |-> st.bankroll_cents
                           + (res.payout_cents - (IF doubled THEN bet * 2 ELSE bet)),
      player_bj |-> inc("player_bj", {"PlayerBJ"}),
      dealer_bj |-> inc("dealer_bj", {"DealerBJ"}),
      player_wins |-> inc("player_wins", {"PlayerBJ", "DealerBust", "PlayerWin"}),
      dealer_wins |-> inc("dealer_wins", {"DealerBJ", "PlayerBust", "DealerWin"}),
      busts |-> inc("busts", {"DealerBust", "PlayerBust"}),
      pushes |-> inc("pushes", {"Push"}),
      surrenders |-> inc("surrenders", {"PlayerSurrender"})]

\* Shoe shoe{rules.num_decks, seed}; SimStats stats{}; i = 0
SimInit ==
  /\ rules = [num_decks |-> 1, dealer_hits_soft17 |-> TRUE, double_allowed |-> TRUE,
              surrender |-> TRUE, peek_for_blackjack |-> TRUE,
              blackjack_pays_num |-> 3, blackjack_pays_den |-> 2]
  /\ bet_ = 100
  /\ shoe = ShoeReset(rules.num_decks)
  /\ player = EmptyHand
  /\ dealer = EmptyHand
  /\ can_double = FALSE
  /\ pc = "loop"
  /\ decides = 0
  /\ result = None
  /\ query = None
  /\ sim \in [n : SimRounds, i : {0}, stats : {ZeroStats}]

\* Mutant of SimBeginRound: every round gets a newly built shoe.
SimBeginRound_NewShoe ==
  /\ pc = "loop"
  /\ sim.i < sim.n
  /\ shoe' = ShoeReset(rules.num_decks)
  /\ player' = EmptyHand
  /\ dealer' = EmptyHand
  /\ can_double' = FALSE
  /\ decides' = 0
  /\ result' = None
  /\ pc' = "deal1"
  /\ UNCHANGED <<rules, bet_, query, sim>>

\* i < n; Round r{rules, shoe, strat, bet_cents}; r.play() starts with
\* player_ = Hand{}; dealer_ = Hand{}
SimBeginRound ==
  /\ pc = "loop"
  /\ sim.i < sim.n
  /\ player' = EmptyHand
  /\ dealer' = EmptyHand
  /\ can_double' = FALSE
  /\ decides' = 0
  /\ result' = None
  /\ pc' = "deal1"
  /\ UNCHANGED <<rules, bet_, shoe, query, sim>>

\* the rest of the loop body once play() has returned, and ++i
SimFold ==
  /\ pc = "done"
  /\ sim # None
  /\ sim' = [sim EXCEPT !.stats = fold(sim.stats, result, player.doubled, bet_),
                        !.i = @ + 1]
  /\ pc' = "loop"
  /\ UNCHANGED <<rules, bet_, shoe, player, dealer, can_double, decides, result, query>>

\* return stats
SimReturn ==
  /\ pc = "loop"
  /\ sim.i >= sim.n
  /\ pc' = "returned"
  /\ UNCHANGED <<rules, bet_, shoe, player, dealer, can_double, decides, result, query, sim>>

SimNext ==
  \/ SimBeginRound
  \/ DealPlayer
  \/ DealDealer
  \/ DealerPeek
  \/ PlayerBlackjackCheck
  \/ \E d1 \in Decision : PlayerSurrender(d1)
  \/ \E d1, d \in Decision : PlayerDouble(d1, d)
  \/ \E d1, d \in Decision : PlayerHit(d1, d)
  \/ \E d1, d \in Decision : PlayerStand(d1, d)
  \/ DealerDraw
  \/ DealerStand
  \/ SimFold
  \/ SimReturn

SimSpec == SimInit /\ [][SimNext]_vars

-----------------------------------------------------------------------------
(* Shoe driver: a Shoe under any sequence of reset(decks), shuffle() and   *)
(* draw() calls.                                                           *)

\* deck counts the driver builds shoes with
ShoeDecks == {1, 2}

\* the explored shoe orders bring up the lowest or the highest rank that is
\* still ahead of the cursor
ExploredNext(sh) ==
  LET ahead == {r \in Ranks : CanDraw(sh, r)}
  IN {r \in ahead : (\A q \in ahead : r <= q) \/ (\A q \in ahead : q <= r)}

\* Shoe(decks, seed): rng_(seed), reset(decks)
ShoeInit ==
  /\ rules \in [num_decks : ShoeDecks, dealer_hits_soft17 : {TRUE},
                 double_allowed : {TRUE}, surrender : {FALSE},
                 peek_for_blackjack : {TRUE},
                 blackjack_pays_num : {3}, blackjack_pays_den : {2}]
  /\ bet_ = 100
  /\ shoe = ShoeReset(rules.num_decks)
  /\ player = EmptyHand
  /\ dealer = EmptyHand
  /\ can_double = FALSE
  /\ pc = "shoe"
  /\ decides = 0
  /\ result = None
  /\ query = None
  /\ sim = None

\* Shoe::draw: index is the element of cards_ that is read
ShoeDrawCall ==
  /\ pc = "shoe"
  /\ \E c \in ExploredNext(shoe) :
       /\ shoe' = AfterDraw(shoe, c)
       /\ query' = [op |-> "draw", card |-> c,
                    index |-> ShoeReady(shoe).next_,
                    reshuffled |-> ShoeReady(shoe) # shoe]
  /\ UNCHANGED <<rules, bet_, player, dealer, can_double, pc, decides, result, sim>>

\* Shoe::shuffle
ShoeShuffleCall ==
  /\ pc = "shoe"
  /\ shoe' = shuffle(shoe)
  /\ query' = [op |-> "shuffle"]
  /\ UNCHANGED <<rules, bet_, player, dealer, can_double, pc, decides, result, sim>>

\* Mutant of ShoeResetCall: reset() does not put the cursor back to 0.
ShoeResetCall_KeepsCursor(decks) ==
  /\ pc = "shoe"
  /\ shoe' = [ShoeReset(decks) EXCEPT !.next_ = shoe.next_]
  /\ query' = [op |-> "reset"]
  /\ UNCHANGED <<rules, bet_, player, dealer, can_double, pc, decides, result, sim>>

\* Shoe::reset
ShoeResetCall(decks) ==
  /\ pc = "shoe"
  /\ shoe' = ShoeReset(decks)
  /\ query' = [op |-> "reset"]
  /\ UNCHANGED <<rules, bet_, player, dealer, can_double, pc, decides, result, sim>>

ShoeNext ==
  \/ ShoeDrawCall
  \/ ShoeShuffleCall
  \/ \E decks \in ShoeDecks : ShoeResetCall(decks)

ShoeSpec == ShoeInit /\ [][ShoeNext]_vars

-----------------------------------------------------------------------------
(* The intended valuation of a hand, stated without the reduction loop *)

\* pip value of a card that is not an Ace: 2..10 at face value, J Q K at 10
PipValue(r) == IF r <= 10 THEN r ELSE 10

\* total of the cards that are not Aces
RECURSIVE PipSum(_)
PipSum(cards) ==
  IF cards = <<>> THEN 0
  ELSE (IF Head(cards) = Ace THEN 0 ELSE PipValue(Head(cards))) + PipSum(Tail(cards))

NumAces(cards) == Cardinality({i \in 1..Len(cards) : cards[i] = Ace})

\* the total with k of the Aces valued 11 and the others valued 1
TotalWith(cards, k) == PipSum(cards) + 11 * k + (NumAces(cards) - k)

\* the greatest total not above 21 over all valuations of the Aces, or the
\* total with every Ace valued 1 when every valuation is above 21
BestTotal(cards) ==
  LET ok == {k \in 0..NumAces(cards) : TotalWith(cards, k) <= 21}
  IN IF ok = {} THEN TotalWith(cards, 0)
     ELSE TotalWith(cards, CHOOSE k \in ok : \A j \in ok : j <= k)

\* in the best total at least one Ace is still valued 11
AceCountsEleven(cards) ==
  \E k \in 1..NumAces(cards) :
    TotalWith(cards, k) <= 21 /\ TotalWith(cards, k) = BestTotal(cards)

-----------------------------------------------------------------------------
(* Claims *)

\* C1: the dealer turn is entered only if the player's hand is not bust, the
\* player did not surrender and no blackjack resolved the round earlier (also
\* after an honored Double).
C1_DealerTurnOnlyIfPlayerLive ==
  pc = "dealer" =>
    /\ ~is_bust(player)
    /\ ~player.surrendered
    /\ result = None

\* C2: in the dealer turn, on a total of exactly 17 the dealer draws another
\* card when the hand is soft and dealer_hits_soft17 is true, and stands on
\* every 17 when dealer_hits_soft17 is false.
C2_DealerSoft17Rule ==
  [][(pc = "dealer" /\ hard_total(dealer) = 17) =>
       IF rules.dealer_hits_soft17
       THEN AceCountsEleven(dealer.cards) =>
              (pc' = "dealer" /\ Len(dealer'.cards) = Len(dealer.cards) + 1)
       ELSE pc' = "done" /\ dealer' = dealer]_vars

\* C3: is_soft() is true iff in the hand's best total at least one Ace is
\* still valued 11.
C3_IsSoftIffAceCountsEleven ==
  query # None => (query.is_soft <=> AceCountsEleven(player.cards))

\* C4: hard_total() is the greatest total not above 21 over all valuations of
\* the Aces as 1 or 11, or the total with every Ace valued 1 if there is
\* none; without Aces it is the plain pip sum, never reduced.
C4_HardTotalIsBestTotal ==
  query # None =>
    /\ query.hard_total = BestTotal(player.cards)
    /\ (NumAces(player.cards) = 0 => query.hard_total = PipSum(player.cards))

\* C4 witness: two Aces and a Nine are valued 21 (one Ace reduced).
C4_Witness ==
  /\ query # None
  /\ player.cards = <<Ace, Ace, Nine>>
  /\ query.hard_total = 21


\* the payout table of the specification
TablePayout(oc, doubled, bet) ==
  CASE oc \in {"DealerBJ", "PlayerBust", "DealerWin"} -> 0
    [] oc \in {"DealerBust", "PlayerWin"} -> IF doubled THEN 4 * bet ELSE 2 * bet
    [] oc = "Push" -> IF doubled THEN 2 * bet ELSE bet
    [] oc = "PlayerSurrender" -> bet \div 2

\* C5: every terminal outcome other than PlayerBJ pays what the table gives
\* for (outcome, doubled, bet).
C5_PayoutTable ==
  (result # None /\ result.outcome # "PlayerBJ") =>
    result.payout_cents = TablePayout(result.outcome, player.doubled, bet_)

\* C5 witness: a doubled hand that ties the dealer gets 2 x bet back.
C5_Witness ==
  /\ result # None
  /\ result.outcome = "Push"
  /\ player.doubled
  /\ result.payout_cents = 2 * bet_

InitialDeal == pc \in {"deal1", "deal2", "deal3", "deal4"}

\* C6: with peek_for_blackjack, a dealer natural ends the round right after
\* the initial deal: Push paying bet if the player has a natural too, else
\* DealerBJ paying 0; the strategy is never consulted and exactly four cards
\* are drawn.
C6_DealerNaturalEndsRound ==
  (rules.peek_for_blackjack /\ is_blackjack(dealer) /\ ~InitialDeal /\ pc # "peek") =>
    /\ pc = "done"
    /\ decides = 0
    /\ shoe.next_ = 4
    /\ Len(player.cards) = 2
    /\ IF is_blackjack(player)
       THEN result.outcome = "Push" /\ result.payout_cents = bet_
       ELSE result.outcome = "DealerBJ" /\ result.payout_cents = 0

\* C6 witness: both naturals under peek, Push paying the stake.
C6_Witness ==
  /\ pc = "done"
  /\ rules.peek_for_blackjack
  /\ is_blackjack(dealer) /\ is_blackjack(player)
  /\ result.outcome = "Push" /\ result.payout_cents = bet_
  /\ decides = 0 /\ shoe.next_ = 4

\* C7: a player natural, when the dealer has none or peek is off, ends the
\* round with PlayerBJ without consulting the strategy or drawing further,
\* paying bet + (bet x num) / den, the division truncating after the
\* multiplication (bet = 100: 250 at 3:2, 220 at 6:5).
C7_PlayerNaturalPays ==
  (/\ is_blackjack(player)
   /\ ~(rules.peek_for_blackjack /\ is_blackjack(dealer))
   /\ ~InitialDeal /\ pc \notin {"peek", "bjcheck"}) =>
    /\ pc = "done"
    /\ result.outcome = "PlayerBJ"
    /\ decides = 0
    /\ shoe.next_ = 4
    /\ Len(dealer.cards) = 2
    /\ result.payout_cents =
         bet_ + ((bet_ * rules.blackjack_pays_num) \div rules.blackjack_pays_den)
    /\ (bet_ = 100 /\ rules.blackjack_pays_num = 3) => result.payout_cents = 250
    /\ (bet_ = 100 /\ rules.blackjack_pays_num = 6) => result.payout_cents = 220

\* C7 witness: a player natural against a dealer natural with peek off, paid
\* 220 for a stake of 100 at 6:5.
C7_Witness ==
  /\ pc = "done"
  /\ result.outcome = "PlayerBJ"
  /\ ~rules.peek_for_blackjack /\ is_blackjack(dealer)
  /\ bet_ = 100 /\ rules.blackjack_pays_num = 6 /\ rules.blackjack_pays_den = 5
  /\ result.payout_cents = 220

\* PlayerSurrender is reported only on the first decision of a round
SurrenderOnlyFirst ==
  (result # None /\ result.outcome = "PlayerSurrender") =>
    /\ rules.surrender
    /\ player.surrendered
    /\ Len(player.cards) = 2
    /\ Len(dealer.cards) = 2
    /\ ~player.doubled
    /\ decides = 1
    /\ shoe.next_ = 4
    /\ result.payout_cents = bet_ \div 2
    /\ (bet_ = 101 => result.payout_cents = 50)

\* a Surrender answer to the first decide() call of a round with surrender
\* enabled ends the round at once
SurrenderHonored ==
  \A d1, d \in Decision :
    (rules.surrender /\ decides = 0 /\ d1 = "Surrender" /\ PlayerIteration(d1, d)) =>
      /\ pc' = "done"
      /\ result'.outcome = "PlayerSurrender"
      /\ result'.payout_cents = bet_ \div 2
      /\ shoe' = shoe
      /\ dealer' = dealer
      /\ player'.cards = player.cards

\* C8: PlayerSurrender is reported only with surrender enabled, on the two
\* dealt cards and as the first action; and a Surrender answer to the first
\* decision ends the round with PlayerSurrender paying bet / 2 (101 -> 50),
\* with no further card and no dealer turn.
C8_LateSurrender == []SurrenderOnlyFirst /\ [][SurrenderHonored]_vars

\* C8 witness: a stake of 101 surrendered for 50.
C8_Witness ==
  /\ pc = "done"
  /\ result.outcome = "PlayerSurrender"
  /\ bet_ = 101 /\ result.payout_cents = 50
  /\ player.surrendered /\ Len(player.cards) = 2 /\ Len(dealer.cards) = 2

\* at any point of a round, doubled implies double_allowed, a player hand of
\* three cards and a player turn that is over
DoubledShape ==
  player.doubled =>
    /\ rules.double_allowed
    /\ Len(player.cards) = 3
    /\ pc \in {"dealer", "done"}

\* a Double answer is honored exactly on the first action with doubling
\* allowed, and then draws one card; otherwise it acts as Stand
DoubleHonoredOrStand ==
  \A d1, d \in Decision :
    (d = "Double" /\ PastOffer(d1) /\ PlayerIteration(d1, d)) =>
      IF rules.double_allowed /\ Len(player.cards) = 2
      THEN /\ player'.doubled
           /\ Len(player'.cards) = Len(player.cards) + 1
           /\ shoe'.next_ = shoe.next_ + 1
           /\ pc' = "dealer"
      ELSE /\ player' = player
           /\ shoe' = shoe
           /\ pc' = "dealer"

\* once the player loop is left the strategy is not consulted again
NoDecisionAfterPlayerTurn ==
  pc \in {"dealer", "done"} => (decides' = decides /\ pc' \in {"dealer", "done"})

\* C9: a Double is honored only with double_allowed on the first action, and
\* then marks the hand doubled and draws exactly one card with no further
\* decision; an illegal Double acts as Stand (no card, doubled stays false,
\* on to the dealer turn); so doubled implies double_allowed and a player
\* hand of exactly three cards.
C9_DoubleRule ==
  /\ []DoubledShape
  /\ [][DoubleHonoredOrStand /\ NoDecisionAfterPlayerTurn]_vars

\* C9 witness: a Double honored as the first action: one decide() call, the
\* hand doubled and one card drawn.
C9_Witness ==
  /\ pc = "dealer"
  /\ rules.double_allowed /\ ~rules.surrender
  /\ player.doubled
  /\ Len(player.cards) = 3
  /\ decides = 1
  /\ shoe.next_ = 5

\* the outcome the totals call for after the dealer turn
TotalsOutcome(pt, dt) ==
  IF dt > 21 THEN "DealerBust"
  ELSE IF pt > dt THEN "PlayerWin"
  ELSE IF pt < dt THEN "DealerWin"
  ELSE "Push"

\* C10: settlement after the dealer turn gives DealerBust if the dealer's
\* hard total is above 21, else PlayerWin, DealerWin or Push by comparing
\* the hard totals, and the result carries both final hard totals.
C10_SettlementAfterDealerTurn ==
  [][(pc = "dealer" /\ pc' = "done") =>
       /\ result'.player_total = hard_total(player')
       /\ result'.dealer_total = hard_total(dealer')
       /\ result'.outcome = TotalsOutcome(result'.player_total, result'.dealer_total)
       /\ player' = player /\ dealer' = dealer]_vars

\* C10 witness: the player stood on hard 20, the dealer drew to hard 18 with
\* dealer_hits_soft17 set: PlayerWin paying 2 x bet.
C10_Witness ==
  /\ pc = "done"
  /\ rules.dealer_hits_soft17
  /\ player.cards = <<King, King>> /\ ~player.doubled
  /\ Len(dealer.cards) = 3 /\ CountAces(dealer.cards) = 0
  /\ result.player_total = 20 /\ result.dealer_total = 18
  /\ result.outcome = "PlayerWin"
  /\ result.payout_cents = 2 * bet_


\* the player loop is left by Stand, Double, Surrender or a bust, and the
\* dealer loop as soon as the dealer's total is at least 17
LoopsEnd ==
  /\ (pc = "player" /\ pc' # "player") =>
       \/ pc' = "dealer" /\ Len(player'.cards) = Len(player.cards)
       \/ pc' = "dealer" /\ player'.doubled
       \/ pc' = "done" /\ result'.outcome = "PlayerSurrender"
       \/ pc' = "done" /\ result'.outcome = "PlayerBust" /\ is_bust(player')
  /\ (pc = "dealer" /\ hard_total(dealer) >= 17) => pc' = "done"
  /\ (pc = "dealer" /\ pc' = "done") => hard_total(dealer) >= 17

\* C11: for every rule set, shoe order and strategy (one that always answers
\* Hit included) play() eventually reaches a terminal outcome: the player
\* loop ends by Stand, Double, Surrender or bust, the dealer loop once the
\* dealer's total is at least 17.
C11_PlayTerminates == <>(pc = "done" /\ result # None) /\ [][LoopsEnd]_vars

\* C11 witness: a strategy that kept answering Hit, ended by a bust on the
\* sixth card.
C11_Witness ==
  /\ pc = "done"
  /\ result.outcome = "PlayerBust"
  /\ Len(player.cards) = 6
  /\ decides >= 4


\* the ranks of a whole shoe of the given size, none drawn
FullShoe(size) == [r \in Ranks |-> size \div 13]

\* what a draw() call does to the shoe, by the cards left before the call
DrawEffect ==
  (pc = "shoe" /\ query'.op = "draw") =>
    IF remaining(shoe) > 0
    THEN /\ ~query'.reshuffled
         /\ query'.index = shoe.next_
         /\ shoe.left[query'.card] > 0
         /\ shoe'.left = [shoe.left EXCEPT ![query'.card] = @ - 1]
         /\ shoe'.next_ = shoe.next_ + 1
         /\ remaining(shoe') = remaining(shoe) - 1
    ELSE /\ query'.reshuffled
         /\ query'.index = 0
         /\ shoe'.left = [FullShoe(shoe.size) EXCEPT ![query'.card] = @ - 1]
         /\ shoe'.next_ = 1
         /\ remaining(shoe') = shoe.size - 1

\* C13: draw() reshuffles only on exhaustion: with remaining() > 0 it returns
\* the card at the cursor without reshuffling and remaining() drops by 1;
\* with remaining() = 0 it reshuffles the whole sequence, restarts at index
\* 0 and leaves remaining() = decks x 52 - 1.
C13_ReshuffleOnlyOnExhaustion == [][DrawEffect]_vars

\* C13 witness: the draw after the last card of a one-deck shoe.
C13_Witness ==
  /\ pc = "shoe"
  /\ query # None /\ query.op = "draw"
  /\ query.reshuffled
  /\ shoe.size = 52 /\ shoe.next_ = 1 /\ remaining(shoe) = 51

\* C14: under any sequence of reset, shuffle and draw calls 0 <= cursor <=
\* size with size = decks x 52, remaining() = size - cursor is not negative,
\* and every draw() reads an index below size.
C14_CursorInRange ==
  pc = "shoe" =>
    /\ \E decks \in ShoeDecks : shoe.size = decks * 52
    /\ 0 <= shoe.next_ /\ shoe.next_ <= shoe.size
    /\ remaining(shoe) \in 0..shoe.size
    /\ remaining(shoe) + shoe.next_ = shoe.size
    /\ (query # None /\ query.op = "draw") =>
         (0 <= query.index /\ query.index < shoe.size)

\* C14 witness: a shoe drawn to its last card (cursor = size) after a reset
\* to two decks.
C14_Witness ==
  /\ pc = "shoe"
  /\ shoe.size = 104 /\ shoe.next_ = 104
  /\ query # None /\ query.op = "draw" /\ query.index = 103

-----------------------------------------------------------------------------
(* simulate: what one finished round adds to the running statistics *)

\* the counters a round with the given outcome adds one to
CountersOf(oc) ==
  CASE oc = "PlayerBJ" -> {"rounds", "player_bj", "player_wins"}
    [] oc = "DealerBJ" -> {"rounds", "dealer_bj", "dealer_wins"}
    [] oc = "DealerBust" -> {"rounds", "player_wins", "busts"}
    [] oc = "PlayerBust" -> {"rounds", "dealer_wins", "busts"}
    [] oc = "PlayerWin" -> {"rounds", "player_wins"}
    [] oc = "DealerWin" -> {"rounds", "dealer_wins"}
    [] oc = "Push" -> {"rounds", "pushes"}
    [] oc = "PlayerSurrender" -> {"rounds", "surrenders"}

StakeOf(h, bet) == IF h.doubled THEN 2 * bet ELSE bet

FoldStep ==
  (pc = "done" /\ pc' = "loop") =>
    /\ sim'.stats.bankroll_cents
         = sim.stats.bankroll_cents + result.payout_cents - StakeOf(player, bet_)
    /\ \A f \in StatFields \ {"bankroll_cents"} :
         sim'.stats[f] = sim.stats[f] + (IF f \in CountersOf(result.outcome) THEN 1 ELSE 0)

\* C15: folding a round's result into the statistics adds one to rounds,
\* adds payout minus stake (twice the bet when the hand was doubled) to the
\* bankroll, adds one to exactly the counters of the outcome and leaves
\* every other counter as it was.
C15_FoldAddsRound == [][FoldStep]_vars

\* a doubled hand that beat a bust dealer has been folded in: +200 on a 100 bet
C15_Witness ==
  /\ sim # None
  /\ pc = "loop"
  /\ sim.stats.rounds = 1
  /\ result # None
  /\ result.outcome = "DealerBust"
  /\ player.doubled
  /\ sim.stats.bankroll_cents = 200
  /\ sim.stats.busts = 1
  /\ sim.stats.player_wins = 1

-----------------------------------------------------------------------------
(* simulate: what is carried from one round to the next *)

BetweenRounds == pc \in {"done", "loop"} => shoe' = shoe

FreshRound ==
  (pc = "loop" /\ pc' = "deal1") =>
    /\ player' = EmptyHand
    /\ dealer' = EmptyHand
    /\ result' = None
    /\ decides' = 0
    /\ rules' = rules
    /\ bet_' = bet_

FirstCardFollows ==
  (pc = "deal1" /\ pc' = "deal2" /\ remaining(shoe) > 0) =>
    /\ shoe'.next_ = shoe.next_ + 1
    /\ \E c \in Ranks : /\ player'.cards = <<c>>
                        /\ shoe.left[c] > 0
                        /\ shoe'.left = [shoe.left EXCEPT ![c] = @ - 1]

\* C16: one shoe serves all rounds of a simulate() call and is not reset
\* between them: the cursor a round leaves is the cursor the next round
\* starts drawing at, and every round starts with empty hands and cleared
\* flags.
C16_ShoeCarriesOver == [][BetweenRounds /\ FreshRound /\ FirstCardFollows]_vars

\* second round, first card dealt, right behind the five cards of a doubled first round
C16_Witness ==
  /\ sim # None
  /\ sim.i = 1
  /\ pc = "deal2"
  /\ shoe.next_ = 6
  /\ Len(player.cards) = 1
  /\ ~player.doubled
  /\ dealer = EmptyHand

-----------------------------------------------------------------------------
(* simulate: the counters partition the rounds *)

\* C19: rounds = player_wins + dealer_wins + pushes + surrenders after every
\* iteration, player_bj <= player_wins, dealer_bj <= dealer_wins,
\* busts <= player_wins + dealer_wins, and rounds = n on return.
C19_CountersPartition ==
  sim # None =>
    LET st == sim.stats IN
      /\ st.rounds = st.player_wins + st.dealer_wins + st.pushes + st.surrenders
      /\ st.player_bj <= st.player_wins
      /\ st.dealer_bj <= st.dealer_wins
      /\ st.busts <= st.player_wins + st.dealer_wins
      /\ st.rounds = sim.i
      /\ pc = "returned" => st.rounds = sim.n

\* a two-round run has returned after a player bust and a surrender
C19_Witness ==
  /\ sim # None
  /\ pc = "returned"
  /\ sim.n = 2
  /\ sim.stats.rounds = 2
  /\ sim.stats.busts = 1
  /\ sim.stats.dealer_wins = 1
  /\ sim.stats.surrenders = 1

-----------------------------------------------------------------------------
(* the initial deal *)

HandSizes(np, nd) == Len(player.cards) = np /\ Len(dealer.cards) = nd

DealShape ==
  /\ pc = "deal1" => HandSizes(0, 0)
  /\ pc = "deal2" => HandSizes(1, 0)
  /\ pc = "deal3" => HandSizes(1, 1)
  /\ pc = "deal4" => HandSizes(2, 1)
  /\ (InitialDeal \/ pc = "peek") => (decides = 0 /\ result = None)
  /\ pc = "peek" => (HandSizes(2, 2) /\ shoe.next_ = 4)
  /\ ~InitialDeal => (Len(player.cards) >= 2 /\ Len(dealer.cards) >= 2)

DealStep ==
  InitialDeal =>
    /\ shoe'.next_ = shoe.next_ + 1
    /\ \E c \in Ranks :
         /\ shoe'.left = [shoe.left EXCEPT ![c] = @ - 1]
         /\ IF pc \in {"deal1", "deal3"}
              THEN player'.cards = Append(player.cards, c) /\ dealer' = dealer
              ELSE dealer'.cards = Append(dealer.cards, c) /\ player' = player

\* C17: the initial deal is four consecutive draws going to player, dealer,
\* player, dealer, so that the player holds the 1st and 3rd card and the
\* dealer the 2nd and 4th, two cards each, before the peek, the blackjack
\* check or any strategy decision.
C17_InitialDealOrder == []DealShape /\ [][DealStep]_vars

\* four cards dealt, nothing else done yet
C17_Witness ==
  /\ pc = "peek"
  /\ player.cards = <<Six, King>>
  /\ dealer.cards = <<Nine, Ace>>
  /\ shoe.next_ = 4
  /\ decides = 0

-----------------------------------------------------------------------------
(* a bust player hand and the payout *)

\* C18: a RoundResult with player_total > 21 has outcome PlayerBust and
\* payout 0; PlayerWin, DealerBust and Push are never reported with
\* player_total > 21.
C18_BustNeverPaid ==
  (result # None /\ result.player_total > 21) =>
    /\ result.outcome = "PlayerBust"
    /\ result.payout_cents = 0

-----------------------------------------------------------------------------
(* the dealer's total in a result *)

\* C20: DealerBust, PlayerWin and DealerWin come with dealer_total >= 17,
\* DealerBust exactly when dealer_total > 21; a Push has dealer_total in
\* 17..21; DealerBJ is reported only under peek_for_blackjack, with
\* dealer_total = 21 on a two-card dealer hand.
C20_DealerTotalInResult ==
  result # None =>
    LET oc == result.outcome
        dt == result.dealer_total
    IN /\ oc \in {"DealerBust", "PlayerWin", "DealerWin"} =>
            (dt >= 17 /\ (oc = "DealerBust" <=> dt > 21))
       /\ oc = "Push" => dt \in 17..21
       /\ oc = "DealerBJ" =>
            (rules.peek_for_blackjack /\ dt = 21 /\ Len(dealer.cards) = 2)

\* the dealer drew from 15 to a bust 25 against a standing player
C20_Witness ==
  /\ result # None
  /\ result.outcome = "DealerBust"
  /\ dealer.cards = <<Six, Nine, King>>
  /\ result.dealer_total = 25
  /\ ~is_bust(player)

====
